---- MODULE Spec2Model ----
(***************************************************************************)
(* Model of package mapper (src/mapper.go): a registry that maps Cgo       *)
(* pointers (tokens) to Go values on top of sync.Map.                      *)
(*                                                                         *)
(* A sync.Map key is an interface value, i.e. a pair (dynamic type,        *)
(* pointer).  Two keys are equal only when both components are equal, so   *)
(* the key type is part of the model.                                      *)
(***************************************************************************)
EXTENDS Integers, Sequences, FiniteSets, TLC

\* ---- bounds -------------------------------------------------------------
NumThreads == 2
MaxNew == 2

\* ---- domains ------------------------------------------------------------
Threads == 1..NumThreads

\* The registry instances: the global G and one separately constructed Mapper.
Mappers == {"G", "M"}

\* Heap addresses a mapperKey allocation can get; NilPtr is the nil pointer.
NilPtr == 0
Addrs == 1..MaxNew
Pointers == {NilPtr} \cup Addrs

\* Go values passed to New (interface{}), the nil interface included.
Nil == "nil"
Values == {Nil, "alpha"}

\* Marks a key without an entry in a sync.Map (not a Go value).
Absent == "absent"

\* Dynamic types of the interface values used as sync.Map keys.
MapperKeyPtr == "*mapperKey"
UnsafePointer == "unsafe.Pointer"
KeyTypes == {MapperKeyPtr, UnsafePointer}
Keys == KeyTypes \X Pointers

VARIABLES
  m,      \* m[R]: contents of the sync.Map of registry R, per key
  pc,     \* pc[th]: position of thread th inside New / Get, or "idle"
  loc,    \* loc[th]: arguments and locals of the call thread th runs
  ret,    \* outcome of the call that completed last
  news    \* history: the completed New calls in order of return, each with
          \* a flag telling whether Delete has since completed on its token

vars == <<m, pc, loc, ret, news>>

\* ---- sync.Map operations as used by the package --------------------------
EmptyMap == [key \in Keys |-> Absent]

\* Store making the key visible before its value is written
StoreKeyFirst(s, key, v) == [s EXCEPT ![key] = Nil]

\* m.Store(key, v)
Store(s, key, v) == [s EXCEPT ![key] = v]

\* m.Load(key): <<value, ok>>; an absent key loads as <<nil, false>>
Load(s, key) == IF s[key] = Absent THEN <<Nil, FALSE>> ELSE <<s[key], TRUE>>

\* m.Clear(): drops every entry, not only that of key
MapClear(s, key) == EmptyMap
\* m.Delete(key): removes the entry of key if there is one
MapDelete(s, key) == [s EXCEPT ![key] = Absent]

Size(s) == Cardinality({key \in Keys : s[key] # Absent})

\* ---- registries ---------------------------------------------------------
\* One package-level map shared by every Mapper
SharedMap(R) == "G"

\* mapper.m: every Mapper value has a sync.Map of its own (lines 14-16).
MapOf(R) == R

\* ---- key conversions ----------------------------------------------------
\* Every New storing under one and the same key
NewKeyFixed(a) == <<MapperKeyPtr, 1>>

\* New stores under k, a *mapperKey.
NewKey(a) == <<MapperKeyPtr, a>>

\* Get loads under (*mapperKey)(k).
GetKey(k) == <<MapperKeyPtr, k>>

\* Delete converting the pointer the way Get does
DeleteKeyConverted(k) == <<MapperKeyPtr, k>>

\* Delete passes k itself, an unsafe.Pointer, as the interface key.
DeleteKey(k) == <<UnsafePointer, k>>

\* ---- allocation ---------------------------------------------------------
\* An address is reachable while it is a key of some registry or the local k
\* of a New in progress; the collector frees nothing reachable.
Reachable(a) ==
  \/ \E R \in Mappers, ty \in KeyTypes : m[R][<<ty, a>>] # Absent
  \/ \E th \in Threads : pc[th] \in {"New42", "New43"} /\ loc[th].k = a

\* All zero-size allocations share one address (an empty mapperKey struct).
ZeroSizeAddrs == {1}

\* An allocation that may also yield the nil pointer
NilableAddrs == {a \in Pointers : ~Reachable(a)}

\* &mapperKey{}: a one-byte allocation, at any address not in use.
NewKeyAddrs == {a \in Addrs : ~Reachable(a)}

\* ---- thread records -----------------------------------------------------
IdleLoc == [R |-> "G", k |-> NilPtr, v |-> Nil]
NoRet == [op |-> "none", R |-> "G", k |-> NilPtr, v |-> Nil, panic |-> FALSE]

InFlightNew == Cardinality({th \in Threads : pc[th] \in {"New42", "New43"}})

Init ==
  /\ m = [R \in Mappers |-> EmptyMap]
  /\ pc = [th \in Threads |-> "idle"]
  /\ loc = [th \in Threads |-> IdleLoc]
  /\ ret = NoRet
  /\ news = <<>>

\* ---- New ----------------------------------------------------------------
\* line 41: k := &mapperKey{}
NewAlloc(th, R, v) ==
  /\ pc[th] = "idle"
  /\ Len(news) + InFlightNew < MaxNew
  /\ \E a \in NewKeyAddrs :
       loc' = [loc EXCEPT ![th] = [R |-> R, k |-> a, v |-> v]]
  /\ pc' = [pc EXCEPT ![th] = "New42"]
  /\ UNCHANGED <<m, ret, news>>

\* A Store that waits for room in a registry limited to one entry
NewStoreWaits(th) ==
  /\ pc[th] = "New42"
  /\ Size(m[MapOf(loc[th].R)]) = 0
  /\ m' = [m EXCEPT ![MapOf(loc[th].R)] =
                      Store(@, NewKey(loc[th].k), loc[th].v)]
  /\ pc' = [pc EXCEPT ![th] = "New43"]
  /\ UNCHANGED <<loc, ret, news>>

\* line 42: mapper.m.Store(k, v)
NewStore(th) ==
  /\ pc[th] = "New42"
  /\ m' = [m EXCEPT ![MapOf(loc[th].R)] =
                      Store(@, NewKey(loc[th].k), loc[th].v)]
  /\ pc' = [pc EXCEPT ![th] = "New43"]
  /\ UNCHANGED <<loc, ret, news>>

\* line 43: return unsafe.Pointer(k)
NewReturn(th) ==
  /\ pc[th] = "New43"
  /\ ret' = [op |-> "New", R |-> loc[th].R, k |-> loc[th].k,
             v |-> loc[th].v, panic |-> FALSE]
  /\ news' = Append(news, [R |-> loc[th].R, k |-> loc[th].k, v |-> loc[th].v,
                           deleted |-> FALSE])
  /\ pc' = [pc EXCEPT ![th] = "idle"]
  /\ loc' = [loc EXCEPT ![th] = IdleLoc]
  /\ UNCHANGED m

\* ---- Get ----------------------------------------------------------------
\* Load reporting a nil value as not found
LoadNilMissing(s, key) == <<Load(s, key)[1], Load(s, key)[1] # Nil>>

\* line 49: v, ok = mapper.m.Load((*mapperKey)(k))
GetLookup(s, key) == Load(s, key)

\* Get returning the zero value for a key that is not found
GetOutcomeDefault(R, k, lk) ==
  [op |-> "Get", R |-> R, k |-> k, v |-> lk[1], panic |-> FALSE]

\* lines 50-53: panic when !ok, else return v
GetOutcome(R, k, lk) ==
  IF lk[2]
  THEN [op |-> "Get", R |-> R, k |-> k, v |-> lk[1], panic |-> FALSE]
  ELSE [op |-> "Get", R |-> R, k |-> k, v |-> Nil, panic |-> TRUE]

\* Get that consumes the entry it finds (LoadAndDelete instead of Load)
GetLoadAndDelete(th, R, k) ==
  /\ pc[th] = "idle"
  /\ ret' = GetOutcome(R, k, GetLookup(m[MapOf(R)], GetKey(k)))
  /\ m' = [m EXCEPT ![MapOf(R)] = MapDelete(@, GetKey(k))]
  /\ UNCHANGED <<pc, loc, news>>

\* lines 47-54: the only shared access of Get is the Load, so the call is
\* one step; a panic is recorded as the outcome and the thread goes on.
Get(th, R, k) ==
  /\ pc[th] = "idle"
  /\ ret' = GetOutcome(R, k, GetLookup(m[MapOf(R)], GetKey(k)))
  /\ UNCHANGED <<m, pc, loc, news>>

\* ---- Delete -------------------------------------------------------------
\* history: Delete has completed on token k of registry R
MarkDeleted(h, R, k) ==
  [i \in DOMAIN h |-> IF h[i].R = R /\ h[i].k = k
                      THEN [h[i] EXCEPT !.deleted = TRUE] ELSE h[i]]

\* Delete that panics like Get when it finds no entry
DeleteOutcomeStrict(R, k, s, key) ==
  [op |-> "Delete", R |-> R, k |-> k, v |-> Nil, panic |-> (s[key] = Absent)]

\* Delete has no result and no failure path, whatever the map holds.
DeleteOutcome(R, k, s, key) ==
  [op |-> "Delete", R |-> R, k |-> k, v |-> Nil, panic |-> FALSE]

\* lines 57-59: mapper.m.Delete(k)
Delete(th, R, k) ==
  /\ pc[th] = "idle"
  /\ m' = [m EXCEPT ![MapOf(R)] = MapDelete(@, DeleteKey(k))]
  /\ news' = MarkDeleted(news, R, k)
  /\ ret' = DeleteOutcome(R, k, m[MapOf(R)], DeleteKey(k))
  /\ UNCHANGED <<pc, loc>>

Next ==
  \/ \E th \in Threads, R \in Mappers, v \in Values : NewAlloc(th, R, v)
  \/ \E th \in Threads : NewStore(th)
  \/ \E th \in Threads : NewReturn(th)
  \/ \E th \in Threads, R \in Mappers, k \in Pointers : Get(th, R, k)
  \/ \E th \in Threads, R \in Mappers, k \in Pointers : Delete(th, R, k)

Spec == Init /\ [][Next]_vars

\* ---- vocabulary of the properties ---------------------------------------
\* R has returned k from a New call
Issued(R, k) == \E i \in DOMAIN news : news[i].R = R /\ news[i].k = k

\* a New of R has stored k and not returned yet
Storing(R, k) ==
  \E th \in Threads : pc[th] = "New43" /\ loc[th].R = R /\ loc[th].k = k

\* the store of R holds an entry for pointer k, under whatever key type
HasEntry(R, k) == \E ty \in KeyTypes : m[R][<<ty, k>>] # Absent

\* what a Get(k) on R would answer in the current state
GetNow(R, k) == GetOutcome(R, k, GetLookup(m[MapOf(R)], GetKey(k)))

Returned(R, k, v) == [op |-> "Get", R |-> R, k |-> k, v |-> v, panic |-> FALSE]

Quiescent == \A th \in Threads : pc[th] = "idle"

\* ---- C1 -----------------------------------------------------------------
\* C1: when Delete(t) completes on the registry that issued t, that registry
\* has no entry for t any more and a following Get(t) panics.
C1_DeleteUnmaps ==
  [][\A th \in Threads, R \in Mappers, k \in Pointers :
       (Delete(th, R, k) /\ Issued(R, k))
         => (~HasEntry(R, k))' /\ (GetNow(R, k).panic)']_vars

\* ---- C2 -----------------------------------------------------------------
\* C2: a Get(t) on the registry that issued t = New(v), with no Delete(t)
\* issued so far, returns exactly v and does not panic, also when v is nil and
\* whatever happened to other tokens in between.
C2_RoundTrip ==
  [][\A th \in Threads, R \in Mappers, k \in Pointers :
       Get(th, R, k) =>
         \A i \in DOMAIN news :
           (news[i].R = R /\ news[i].k = k /\ ~news[i].deleted)
             => ret' = Returned(R, k, news[i].v)]_vars

\* A Get has returned the stored nil of a live token after another token of
\* the same registry was created and deleted.
C2_Witness ==
  /\ ret.op = "Get" /\ ~ret.panic /\ ret.v = Nil
  /\ \E i, j \in DOMAIN news :
       /\ i # j
       /\ news[i].R = ret.R /\ news[i].k = ret.k /\ news[i].v = Nil
       /\ ~news[i].deleted
       /\ news[j].R = ret.R /\ news[j].deleted

\* ---- C3 -----------------------------------------------------------------
\* C3: two distinct New calls of one registry whose mappings are both live
\* (stored, and no Delete completed on them) hold different tokens, whether
\* the calls have returned or are still running on different threads, and
\* each live token maps to the value of its own call.
C3_TokenDistinct ==
  /\ \A i, j \in DOMAIN news :
       (i # j /\ news[i].R = news[j].R /\ ~news[i].deleted /\ ~news[j].deleted)
         => news[i].k # news[j].k
  /\ \A th \in Threads, i \in DOMAIN news :
       (pc[th] = "New43" /\ loc[th].R = news[i].R /\ ~news[i].deleted)
         => loc[th].k # news[i].k
  /\ \A th1, th2 \in Threads :
       (th1 # th2 /\ pc[th1] \in {"New42", "New43"}
          /\ pc[th2] \in {"New42", "New43"})
         => loc[th1].k # loc[th2].k
  /\ \A i \in DOMAIN news :
       ~news[i].deleted => m[news[i].R][NewKey(news[i].k)] = news[i].v
  /\ \A th \in Threads :
       pc[th] = "New43" => m[loc[th].R][NewKey(loc[th].k)] = loc[th].v

\* Two threads are inside New on the same registry with the same nil value,
\* both past their Store.
C3_Witness ==
  \E th1, th2 \in Threads :
    /\ th1 # th2
    /\ pc[th1] = "New43" /\ pc[th2] = "New43"
    /\ loc[th1].R = loc[th2].R
    /\ loc[th1].v = Nil /\ loc[th2].v = Nil

C5_DeleteUnmappedNoOp ==
  [][\A th \in Threads, R \in Mappers, k \in Pointers :
       (Delete(th, R, k)
          /\ (~HasEntry(R, k) \/ (ret.op = "Delete" /\ ret.R = R /\ ret.k = k)))
         => m' = m /\ ~ret'.panic]_vars

\* A Delete has completed on a token without mapping in a registry that holds
\* other mappings.
C5_Witness ==
  /\ ret.op = "Delete" /\ ~ret.panic
  /\ ~HasEntry(ret.R, ret.k)
  /\ Size(m[ret.R]) > 0

\* ---- C6 -----------------------------------------------------------------
CompletedNews(R) == {i \in DOMAIN news : news[i].R = R}
DeletedTokens(R) == {news[i].k : i \in {j \in CompletedNews(R) : news[j].deleted}}

\* C6: in every quiescent state the store of a registry has as many entries
\* as New calls completed on it minus the distinct issued tokens on which
\* Delete has completed.
C6_SizeAccounting ==
  Quiescent =>
    \A R \in Mappers :
      Size(m[R]) = Cardinality(CompletedNews(R)) - Cardinality(DeletedTokens(R))

\* ---- C7 -----------------------------------------------------------------
\* C7: a token issued by registry A and never stored by registry B has no
\* entry in B; B.Get(t) panics; B.Delete(t) changes no store, so that A.Get(t)
\* still returns the stored value afterwards.
C7_CrossInstance ==
  [][\A i \in DOMAIN news, B \in Mappers :
       (B # news[i].R /\ ~Issued(B, news[i].k) /\ ~Storing(B, news[i].k))
         => /\ ~HasEntry(B, news[i].k)
            /\ \A th \in Threads :
                 /\ Get(th, B, news[i].k) => ret'.panic
                 /\ Delete(th, B, news[i].k)
                      => /\ m' = m
                         /\ (GetNow(news[i].R, news[i].k))'
                              = Returned(news[i].R, news[i].k, news[i].v)]_vars

\* A Delete has completed on a registry with a token that only the other
\* registry issued.
C7_Witness ==
  /\ ret.op = "Delete"
  /\ ~Issued(ret.R, ret.k)
  /\ \E i \in DOMAIN news : news[i].k = ret.k /\ news[i].R # ret.R

\* ---- C8 -----------------------------------------------------------------
\* C8: Delete(t1) on registry R changes at most the entry of t1 in R: every
\* other key of R and every key of every other registry keeps its entry.
C8_DeleteFrame ==
  [][\A th \in Threads, R \in Mappers, k \in Pointers :
       Delete(th, R, k) =>
         \A R2 \in Mappers, key \in Keys :
           (R2 # R \/ key[2] # k) => m'[R2][key] = m[R2][key]]_vars

\* Delete(t1) has completed while a second token of the same registry maps to
\* the same value "alpha" as t1 did.
C8_Witness ==
  /\ ret.op = "Delete"
  /\ \E i, j \in DOMAIN news :
       /\ i # j
       /\ news[i].R = ret.R /\ news[i].k = ret.k /\ news[i].v = "alpha"
       /\ news[j].R = ret.R /\ news[j].k # ret.k /\ news[j].v = "alpha"
       /\ GetNow(ret.R, news[j].k) = Returned(ret.R, news[j].k, "alpha")

\* ---- C9 -----------------------------------------------------------------
\* C9: a Get, returning or panicking, leaves every store, every thread and
\* the registry's history as they were, so that the calling thread can go on
\* with New, Get and Delete.
C9_GetPure ==
  [][\A th \in Threads, R \in Mappers, k \in Pointers :
       Get(th, R, k) => m' = m /\ pc' = pc /\ loc' = loc /\ news' = news]_vars

\* A Get has panicked and a Get has returned a value: here the panicked one,
\* with its thread idle again and the registry still holding a mapping.
C9_Witness ==
  /\ ret.op = "Get" /\ ret.panic
  /\ Quiescent
  /\ \E i \in DOMAIN news : news[i].R = ret.R /\ HasEntry(ret.R, news[i].k)

\* ---- C10 ----------------------------------------------------------------
\* C10: from the return of t = New(v) until a Delete(t), a Get(t) answers v in
\* every state, whatever New, Get and Delete calls run on other tokens.
C10_StableMapping ==
  \A i \in DOMAIN news :
    ~news[i].deleted
      => GetNow(news[i].R, news[i].k) = Returned(news[i].R, news[i].k, news[i].v)

\* A token mapped to "alpha" is still live after a later New with nil on the
\* same registry completed and the last Get on it returned "alpha".
C10_Witness ==
  /\ Len(news) = 2
  /\ news[1].R = news[2].R
  /\ news[1].v = "alpha" /\ news[2].v = Nil
  /\ ~news[1].deleted
  /\ ret = Returned(news[1].R, news[1].k, "alpha")
\* ---- C11 ----------------------------------------------------------------
\* C11: a token that a registry issued and on which Delete has completed is
\* never held by a later New of that registry, returned or still running.
C11_NoTokenReuse ==
  /\ \A i, j \in DOMAIN news :
       (i < j /\ news[i].R = news[j].R /\ news[i].deleted)
         => news[j].k # news[i].k
  /\ \A i \in DOMAIN news, th \in Threads :
       (pc[th] \in {"New42", "New43"} /\ loc[th].R = news[i].R
          /\ news[i].deleted)
         => loc[th].k # news[i].k

\* A New has returned on a registry after Delete completed on an earlier token
\* of that registry.
C11_Witness ==
  /\ Len(news) = 2
  /\ news[1].R = news[2].R
  /\ news[1].deleted /\ ~news[2].deleted
  /\ ret.op = "New" /\ ret.k = news[2].k
\* ---- calls with a duration ----------------------------------------------
\* Get and Delete as an invocation, the sync.Map access and the return, so
\* that calls of different threads overlap.  All calls go to one registry.
ConcMappers == {"G"}

\* line 47: Get is entered with k
GetCall(th, R, k) ==
  /\ pc[th] = "idle"
  /\ loc' = [loc EXCEPT ![th] = [R |-> R, k |-> k, v |-> Nil, ok |-> FALSE]]
  /\ pc' = [pc EXCEPT ![th] = "Get49"]
  /\ UNCHANGED <<m, ret, news>>

\* line 49: v, ok = mapper.m.Load((*mapperKey)(k))
GetLoad(th) ==
  /\ pc[th] = "Get49"
  /\ loc' = [loc EXCEPT ![th] =
               [R |-> loc[th].R, k |-> loc[th].k,
                v |-> GetLookup(m[MapOf(loc[th].R)], GetKey(loc[th].k))[1],
                ok |-> GetLookup(m[MapOf(loc[th].R)], GetKey(loc[th].k))[2]]]
  /\ pc' = [pc EXCEPT ![th] = "Get50"]
  /\ UNCHANGED <<m, ret, news>>

\* lines 50-53: panic when !ok, else return v
GetReturn(th) ==
  /\ pc[th] = "Get50"
  /\ ret' = GetOutcome(loc[th].R, loc[th].k, <<loc[th].v, loc[th].ok>>)
  /\ pc' = [pc EXCEPT ![th] = "idle"]
  /\ loc' = [loc EXCEPT ![th] = IdleLoc]
  /\ UNCHANGED <<m, news>>

\* line 57: Delete is entered with k
DeleteCall(th, R, k) ==
  /\ pc[th] = "idle"
  /\ loc' = [loc EXCEPT ![th] = [R |-> R, k |-> k, v |-> Nil]]
  /\ pc' = [pc EXCEPT ![th] = "Del58"]
  /\ UNCHANGED <<m, ret, news>>

\* lines 58-59: mapper.m.Delete(k), and the return
DeleteDo(th) ==
  /\ pc[th] = "Del58"
  /\ m' = [m EXCEPT ![MapOf(loc[th].R)] = MapDelete(@, DeleteKey(loc[th].k))]
  /\ news' = MarkDeleted(news, loc[th].R, loc[th].k)
  /\ ret' = DeleteOutcome(loc[th].R, loc[th].k, m[MapOf(loc[th].R)],
                          DeleteKey(loc[th].k))
  /\ pc' = [pc EXCEPT ![th] = "idle"]
  /\ loc' = [loc EXCEPT ![th] = IdleLoc]

NextConc ==
  \/ \E th \in Threads, R \in ConcMappers, v \in Values : NewAlloc(th, R, v)
  \/ \E th \in Threads : NewStore(th)
  \/ \E th \in Threads : NewReturn(th)
  \/ \E th \in Threads, R \in ConcMappers, k \in Pointers : GetCall(th, R, k)
  \/ \E th \in Threads : GetLoad(th)
  \/ \E th \in Threads : GetReturn(th)
  \/ \E th \in Threads, R \in ConcMappers, k \in Pointers : DeleteCall(th, R, k)
  \/ \E th \in Threads : DeleteDo(th)

SpecConc == Init /\ [][NextConc]_vars

\* ---- C12 ----------------------------------------------------------------
\* a New call of R, returned or running, holds k with value v
HeldBy(R, k, v) ==
  \/ \E i \in DOMAIN news : news[i].R = R /\ news[i].k = k /\ news[i].v = v
  \/ \E th \in Threads :
       pc[th] \in {"New42", "New43"} /\ loc[th] = [R |-> R, k |-> k, v |-> v]

\* a Delete(k) on R has been invoked and has not returned
Deleting(R, k) ==
  \E th \in Threads : pc[th] = "Del58" /\ loc[th].R = R /\ loc[th].k = k

\* C12: the Load of a Get(t), whatever New and Delete calls overlap it, finds
\* either nothing or exactly the value of the New call that holds t, and Get
\* answers accordingly; when t is issued and no Delete(t) has completed or is
\* running, it finds exactly t's value.
C12_PerKeyAtomic ==
  [][\A th \in Threads :
       /\ GetLoad(th) =>
            /\ loc'[th].ok => HeldBy(loc[th].R, loc[th].k, loc'[th].v)
            /\ \A i \in DOMAIN news :
                 (news[i].R = loc[th].R /\ news[i].k = loc[th].k
                    /\ ~news[i].deleted /\ ~Deleting(loc[th].R, loc[th].k))
                   => loc'[th].ok /\ loc'[th].v = news[i].v
       /\ GetReturn(th) =>
            \/ ret' = [op |-> "Get", R |-> loc[th].R, k |-> loc[th].k,
                       v |-> Nil, panic |-> TRUE]
            \/ \E v \in Values :
                 /\ HeldBy(loc[th].R, loc[th].k, v)
                 /\ ret' = Returned(loc[th].R, loc[th].k, v)]_vars

\* A Get(t) has loaded "alpha" while a Delete(t) of another thread is running
\* on the same registry.
C12_Witness ==
  \E th1, th2 \in Threads :
    /\ pc[th1] = "Get50" /\ loc[th1].ok /\ loc[th1].v = "alpha"
    /\ pc[th2] = "Del58"
    /\ loc[th2].R = loc[th1].R /\ loc[th2].k = loc[th1].k
\* ---- C13 ----------------------------------------------------------------
\* C13: New inserts the entry before it hands the token out; once New has
\* returned t, a Get(t) invoked before any Delete(t) finds the mapping and
\* does not panic, and a Delete(t) removes the mapping.
C13_Visibility ==
  [][\A th \in Threads :
       /\ NewReturn(th) => m[loc[th].R][NewKey(loc[th].k)] = loc[th].v
       /\ \A i \in DOMAIN news :
            /\ (Get(th, news[i].R, news[i].k) /\ ~news[i].deleted)
                 => ~ret'.panic
            /\ Delete(th, news[i].R, news[i].k)
                 => (~HasEntry(news[i].R, news[i].k))']_vars

\* ---- C16 ----------------------------------------------------------------
\* C16: no New holds or has returned the nil pointer and no registry has an
\* entry for it, so that in every state a Get(nil) panics and a Delete(nil)
\* leaves the store as it is without panicking.
C16_NilNeverToken ==
  /\ \A i \in DOMAIN news : news[i].k # NilPtr
  /\ \A th \in Threads : pc[th] \in {"New42", "New43"} => loc[th].k # NilPtr
  /\ \A R \in Mappers :
       /\ ~HasEntry(R, NilPtr)
       /\ GetNow(R, NilPtr).panic
       /\ MapDelete(m[MapOf(R)], DeleteKey(NilPtr)) = m[MapOf(R)]
       /\ ~DeleteOutcome(R, NilPtr, m[MapOf(R)], DeleteKey(NilPtr)).panic

\* A Get(nil) has panicked on a registry that holds two mappings.
C16_Witness ==
  /\ ret.op = "Get" /\ ret.k = NilPtr /\ ret.panic
  /\ Size(m[ret.R]) = 2
\* ---- C15 ----------------------------------------------------------------
\* the steps of a call thread th has entered
Continue(th) ==
  \/ NewStore(th)
  \/ NewReturn(th)
  \/ GetLoad(th)
  \/ GetReturn(th)
  \/ DeleteDo(th)

\* Every thread inside a call is scheduled again: goroutines are preempted
\* and none of the calls parks.
FairConc == SpecConc /\ \A th \in Threads : WF_vars(Continue(th))

\* C15: a thread inside New, Get or Delete can always take its next step,
\* whatever the other threads are doing, and under fair scheduling every call
\* that was entered completes.
C15_Termination ==
  /\ [](\A th \in Threads : pc[th] # "idle" => ENABLED <<Continue(th)>>_vars)
  /\ \A th \in Threads : (pc[th] # "idle") ~> (pc[th] = "idle")

\* All threads are inside a call at once, one of them a Get that found no
\* mapping and is about to panic.
C15_Witness ==
  /\ \A th \in Threads : pc[th] # "idle"
  /\ \E th \in Threads : pc[th] = "Get50" /\ ~loc[th].ok
====
